---- MODULE Spec2Model ----
(***************************************************************************)
(* Model of the two Python programs of FRTMTools:                          *)
(*   - parse_apk_manifest.py: parse_binary_xml, the chunk walk over the    *)
(*     binary AndroidManifest.xml and the heuristics over its string pool  *)
(*   - update_formula.py: main, the three regular-expression substitutions *)
(*     on the Homebrew formula.                                            *)
(* A Python str is a sequence of one-character strings; bytes are a        *)
(* sequence of integers 0..255.  Python offsets are 0-based, so data[k]    *)
(* in the source is data[k + 1] here.                                      *)
(***************************************************************************)
EXTENDS Integers, Sequences, FiniteSets, TLC

VARIABLES
  pc,             \* position in parse_binary_xml / main
  data,           \* the manifest buffer
  offset,         \* scan cursor of the chunk walk
  string_count,   \* declared number of strings of the pool chunk
  offsets,        \* string offsets read so far
  strings,        \* decoded string pool
  package_name, version_name, version_code, app_label, permissions,
  result,         \* what parse_binary_xml returns
  argv,           \* update_formula.py: sys.argv[2..4] and len(sys.argv)
  text,           \* update_formula.py: the text being rewritten
  file,           \* update_formula.py: what formula_path.read_text() returns
  written,        \* update_formula.py: what formula_path.write_text() was given
  rc              \* update_formula.py: how the process ends

vars == <<pc, data, offset, string_count, offsets, strings, package_name,
          version_name, version_code, app_label, permissions, result,
          argv, text, file, written, rc>>

scanVars == <<data, offset, string_count, offsets, strings>>
classVars == <<package_name, version_name, version_code, app_label, permissions>>
formulaVars == <<argv, text, file, written, rc>>

(***************************************************************************)
(* Python values                                                           *)
(***************************************************************************)
\* None and a present str; '' is Some(<<>>), which differs from None
None == <<>>
Some(s) == <<s>>
\* truthiness of an Optional[str]: None and '' are false
Truthy(o) == o # None /\ o[1] # <<>>

DIGITS == <<"0","1","2","3","4","5","6","7","8","9">>
UPPERCASE == <<"A","B","C","D","E","F","G","H","I","J","K","L","M",
               "N","O","P","Q","R","S","T","U","V","W","X","Y","Z">>
LOWERCASE == <<"a","b","c","d","e","f","g","h","i","j","k","l","m",
               "n","o","p","q","r","s","t","u","v","w","x","y","z">>
DigitSet == {DIGITS[i] : i \in DOMAIN DIGITS}
UpperSet == {UPPERCASE[i] : i \in DOMAIN UPPERCASE}
LowerSet == {LOWERCASE[i] : i \in DOMAIN LOWERCASE}

\* str methods on one character (the model's characters are ASCII)
c_isdigit(c) == c \in DigitSet
c_isupper(c) == c \in UpperSet
c_isalpha(c) == c \in UpperSet \cup LowerSet
c_isalnum(c) == c_isalpha(c) \/ c_isdigit(c)
c_upper(c) == IF c \in LowerSet
              THEN UPPERCASE[CHOOSE i \in DOMAIN LOWERCASE : LOWERCASE[i] = c]
              ELSE c
c_lower(c) == IF c \in UpperSet
              THEN LOWERCASE[CHOOSE i \in DOMAIN UPPERCASE : UPPERCASE[i] = c]
              ELSE c

\* str methods on a string
startswith(s, p) == Len(s) >= Len(p) /\ SubSeq(s, 1, Len(p)) = p
endswith(s, p) == Len(s) >= Len(p) /\ SubSeq(s, Len(s) - Len(p) + 1, Len(s)) = p
\* p in s
contains(s, p) == \E i \in 1..(Len(s) - Len(p) + 1) : SubSeq(s, i, i + Len(p) - 1) = p
\* s.count(c) for a one-character c
count(s, c) == Cardinality({i \in DOMAIN s : s[i] = c})
isdigit(s) == Len(s) > 0 /\ \A i \in DOMAIN s : c_isdigit(s[i])
isalpha(s) == Len(s) > 0 /\ \A i \in DOMAIN s : c_isalpha(s[i])
upper(s) == [i \in DOMAIN s |-> c_upper(s[i])]
\* s.capitalize(): first character upper-cased, the rest lower-cased
capitalize(s) == [i \in DOMAIN s |-> IF i = 1 THEN c_upper(s[i]) ELSE c_lower(s[i])]
\* s[0:n]
slice0(s, n) == SubSeq(s, 1, IF Len(s) < n THEN Len(s) ELSE n)

\* s.replace(sub, ''): non-overlapping occurrences removed left to right
RECURSIVE replace(_, _)
replace(s, sub) ==
  IF Len(s) < Len(sub) THEN s
  ELSE IF SubSeq(s, 1, Len(sub)) = sub
       THEN replace(SubSeq(s, Len(sub) + 1, Len(s)), sub)
       ELSE <<s[1]>> \o replace(Tail(s), sub)

\* s.split('.')
RECURSIVE split(_, _)
split(s, sep) ==
  IF \A i \in DOMAIN s : s[i] # sep THEN <<s>>
  ELSE LET k == CHOOSE i \in DOMAIN s : s[i] = sep /\ \A j \in 1..(i - 1) : s[j] # sep
       IN <<SubSeq(s, 1, k - 1)>> \o split(SubSeq(s, k + 1, Len(s)), sep)

\* int(c) for one ASCII digit
DigitValue(c) == CHOOSE d \in 0..9 : DIGITS[d + 1] = c

\* int(s) for a string of ASCII digits
RECURSIVE int(_)
int(s) ==
  IF s = <<>> THEN 0
  ELSE 10 * int(SubSeq(s, 1, Len(s) - 1)) + DigitValue(s[Len(s)])

\* x in list
InList(x, list) == \E i \in DOMAIN list : list[i] = x

\* the record parse_binary_xml returns; error is '' for a metadata record
Metadata(pkg, vname, vcode, label, perms) ==
  [error |-> "", package |-> pkg, versionName |-> vname, versionCode |-> vcode,
   appLabel |-> label, permissions |-> perms]
ErrorResult(msg) ==
  [error |-> msg, package |-> None, versionName |-> None, versionCode |-> None,
   appLabel |-> None, permissions |-> <<>>]
NoResult == ErrorResult("not returned")

\* the sequences over V of length at most n
SeqsUpTo(V, n) == UNION {[1..k -> V] : k \in 0..n}

\* update_formula.py is not running
IdleFormula ==
  /\ argv = <<>> /\ text = <<>> /\ file = <<>> /\ written = None /\ rc = "none"

(***************************************************************************)
(* parse_binary_xml: the heuristics over the string pool (lines 66-197)    *)
(***************************************************************************)
\* lines 89-93: the rule that makes a pool string a permission
is_permission(s) ==
  \/ startswith(s, <<"a","n","d","r","o","i","d",".","p","e","r","m","i","s","s","i","o","n",".">>)
  \/ /\ contains(s, <<".","p","e","r","m","i","s","s","i","o","n",".">>)
     /\ ~endswith(s, <<"A","c","t","i","v","i","t","y">>)
     /\ ~endswith(s, <<"S","e","r","v","i","c","e">>)
     /\ ~endswith(s, <<"R","e","c","e","i","v","e","r">>)
     /\ ~endswith(s, <<"P","r","o","v","i","d","e","r">>)

\* AppendPermission without the test "s not in permissions"
AppendPermissionAlways(perms, s) ==
  IF is_permission(s) THEN Append(perms, s) ELSE perms

\* line 95: a permission is appended unless the list already has it
AppendPermission(perms, s) ==
  IF is_permission(s) /\ ~InList(s, perms) THEN Append(perms, s) ELSE perms

\* lines 85-96: the loop over the pool
RECURSIVE PermissionLoop(_, _)
PermissionLoop(strs, perms) ==
  IF strs = <<>> THEN perms
  ELSE PermissionLoop(Tail(strs), AppendPermission(perms, Head(strs)))

excluded_labels ==
  << <<"n","a","m","e">>, <<"l","a","b","e","l">>, <<"a","p","p","l","i","c","a","t","i","o","n">>, <<"a","c","t","i","v","i","t","y">>, <<"s","e","r","v","i","c","e">>, <<"r","e","c","e","i","v","e","r">>,
     <<"p","r","o","v","i","d","e","r">>, <<"R","E","L","E","A","S","E">>, <<"D","E","B","U","G">>, <<"M","A","I","N">>, <<"V","E","R","S","I","O","N">>, <<"S","D","K">>, <<"M","I","N">>,
     <<"M","A","X">>, <<"T","A","R","G","E","T">>, <<"t","r","u","e">>, <<"f","a","l","s","e">>, <<"n","u","l","l">>, <<"v","a","l","u","e">>, <<"c","o","n","f","i","g">>,
     <<"d","e","f","a","u","l","t">>, <<"s","t","r","i","n","g">>, <<"l","a","y","o","u","t">>, <<"d","r","a","w","a","b","l","e">>, <<"c","o","l","o","r">>, <<"d","i","m","e","n">>,
     <<"s","t","y","l","e">>, <<"a","r","r","a","y">>, <<"i","n","t","e","g","e","r">>, <<"b","o","o","l">>, <<"i","d">>, <<"a","t","t","r">>, <<"a","n","i","m">>,
     <<"m","e","n","u">>, <<"r","a","w">>, <<"x","m","l">>, <<"f","o","n","t">>, <<"n","a","v","i","g","a","t","i","o","n">>, <<"t","r","a","n","s","i","t","i","o","n">> >>

\* s.upper() not in [e.upper() for e in excluded_labels]
NotExcluded(s) ==
  \A i \in DOMAIN excluded_labels : upper(excluded_labels[i]) # upper(s)

\* lines 111-115: index of the first 'application', -1 when there is none
AppIndex(strs) ==
  IF \E i \in DOMAIN strs : strs[i] = <<"a","p","p","l","i","c","a","t","i","o","n">>
  THEN (CHOOSE i \in DOMAIN strs :
          strs[i] = <<"a","p","p","l","i","c","a","t","i","o","n">> /\ \A j \in 1..(i - 1) : strs[j] # <<"a","p","p","l","i","c","a","t","i","o","n">>) - 1
  ELSE -1

\* lines 122-130: the test of one string near the application tag
ProximityTest(s) ==
  /\ 2 <= Len(s) /\ Len(s) <= 50
  /\ ~contains(s, <<"/">>)
  /\ ~startswith(s, <<"a","n","d","r","o","i","d">>)
  /\ ~startswith(s, <<"c","o","m",".">>)
  /\ ~startswith(s, <<"@">>)
  /\ ~endswith(s, <<".","x","m","l">>)
  /\ ~\E i \in DOMAIN s : c_isdigit(s[i])
  /\ NotExcluded(s)
  /\ c_isupper(s[1])

\* ProximityStop with a window of 19 strings
ProximityStopShort(strs, app_index) ==
  IF 20 < Len(strs) - app_index THEN 20 ELSE Len(strs) - app_index

\* line 120: range(1, min(21, len(strings) - app_index)), the stop value
ProximityStop(strs, app_index) ==
  IF 21 < Len(strs) - app_index THEN 21 ELSE Len(strs) - app_index

\* lines 120-132: first string of the window that passes the test
RECURSIVE ProximityLoop(_, _, _, _)
ProximityLoop(strs, app_index, off, stop) ==
  IF off >= stop THEN None
  ELSE IF ProximityTest(strs[app_index + off + 1])
       THEN Some(strs[app_index + off + 1])
       ELSE ProximityLoop(strs, app_index, off + 1, stop)

\* lines 137-145: the test of the search over all strings
GlobalTest(s) ==
  /\ 3 <= Len(s) /\ Len(s) <= 50
  /\ ~contains(s, <<"/">>) /\ ~contains(s, <<".">>)
  /\ ~startswith(s, <<"a","n","d","r","o","i","d">>)
  /\ ~startswith(s, <<"c","o","m",".">>)
  /\ ~startswith(s, <<"@">>)
  /\ ~endswith(s, <<".","x","m","l">>)
  /\ NotExcluded(s)
  /\ c_isupper(s[1]) /\ contains(s, <<" ">>)

\* lines 152-155: the test of the last resort
LastResortTest(s) ==
  /\ 3 <= Len(s) /\ Len(s) <= 30
  /\ c_isupper(s[1])
  /\ isalpha(s)
  /\ NotExcluded(s)

\* lines 136-147: the first string that passes the test, None without one
RECURSIVE GlobalLoop(_)
GlobalLoop(strs) ==
  IF strs = <<>> THEN None
  ELSE IF GlobalTest(Head(strs)) THEN Some(Head(strs))
       ELSE GlobalLoop(Tail(strs))

\* lines 151-157: the first string that passes the test, None without one
RECURSIVE LastResortLoop(_)
LastResortLoop(strs) ==
  IF strs = <<>> THEN None
  ELSE IF LastResortTest(Head(strs)) THEN Some(Head(strs))
       ELSE LastResortLoop(Tail(strs))

\* lines 162-167: the rule that makes a pool string the package name
PackageTest(s) ==
  /\ contains(s, <<".">>) /\ Len(s) > 5 /\ Len(s) < 200
  /\ count(s, ".") >= 2
  /\ \E i \in DOMAIN s : c_isalpha(s[i])
  /\ \A i \in DOMAIN s : c_isalnum(s[i]) \/ s[i] = "." \/ s[i] = "_"
  /\ ~c_isdigit(s[1])
  /\ ~startswith(s, <<"a","n","d","r","o","i","d",".","p","e","r","m","i","s","s","i","o","n",".">>)

\* TakePackage without the test "not package_name": the last match wins
TakePackageAlways(pkg, s) == IF PackageTest(s) THEN Some(s) ELSE pkg

\* line 162/168: the package is assigned only while it is still unset
TakePackage(pkg, s) == IF ~Truthy(pkg) /\ PackageTest(s) THEN Some(s) ELSE pkg

\* lines 171-172: the rule that makes a pool string the version name
VersionNameTest(s) ==
  /\ Len(s) < 50 /\ contains(s, <<".">>)
  /\ c_isdigit(s[1])
  /\ isdigit(replace(replace(replace(
         slice0(replace(replace(replace(s, <<".">>), <<"-">>), <<"_">>), 5),
         <<"b">>), <<"a">>), <<"r","c">>))

TakeVersionName(ver, s) == IF ~Truthy(ver) /\ VersionNameTest(s) THEN Some(s) ELSE ver

\* lines 159-173: one loop sets both package_name and version_name
RECURSIVE PackageVersionLoop(_, _, _)
PackageVersionLoop(strs, pkg, ver) ==
  IF strs = <<>> THEN <<pkg, ver>>
  ELSE PackageVersionLoop(Tail(strs), TakePackage(pkg, Head(strs)),
                          TakeVersionName(ver, Head(strs)))

\* VersionCodeBeats comparing the strings instead of their integer values
RECURSIVE StrGreater(_, _)
StrGreater(a, b) ==
  IF a = <<>> THEN FALSE
  ELSE IF b = <<>> THEN TRUE
       ELSE IF a[1] = b[1] THEN StrGreater(Tail(a), Tail(b))
            ELSE DigitValue(a[1]) > DigitValue(b[1])
VersionCodeBeatsAsText(s, code) == ~Truthy(code) \/ StrGreater(s, code[1])

\* line 178: the candidate replaces the current version code
VersionCodeBeats(s, code) == ~Truthy(code) \/ int(s) > int(code[1])

\* lines 176-179
RECURSIVE VersionCodeLoop(_, _)
VersionCodeLoop(strs, code) ==
  IF strs = <<>> THEN code
  ELSE LET s == Head(strs)
       IN VersionCodeLoop(Tail(strs),
            IF isdigit(s) /\ 5 <= Len(s) /\ Len(s) <= 10 /\ VersionCodeBeats(s, code)
            THEN Some(s) ELSE code)

\* lines 185-189: last part of the package name, capitalized
LabelFromPackageName(pkg) ==
  LET parts == split(pkg, ".")
  IN capitalize(parts[Len(parts)])

\* lines 67-71 (uses_permission_idx and android_name_idx of lines 74-81 are
\* never read again and are left out)
ClassifyStart ==
  /\ pc = "classify"
  /\ package_name' = None /\ version_name' = None /\ version_code' = None
  /\ app_label' = None /\ permissions' = <<>>
  /\ pc' = "permissions"
  /\ UNCHANGED <<scanVars, result, formulaVars>>

\* lines 85-96
ExtractPermissions ==
  /\ pc = "permissions"
  /\ permissions' = PermissionLoop(strings, permissions)
  /\ pc' = "label_proximity"
  /\ UNCHANGED <<scanVars, package_name, version_name, version_code, app_label,
                 result, formulaVars>>

\* lines 111-132
LabelProximityPass ==
  /\ pc = "label_proximity"
  /\ LET app_index == AppIndex(strings)
     IN app_label' = IF app_index >= 0
                     THEN ProximityLoop(strings, app_index, 1,
                                        ProximityStop(strings, app_index))
                     ELSE app_label
  /\ pc' = "label_global"
  /\ UNCHANGED <<scanVars, package_name, version_name, version_code, permissions,
                 result, formulaVars>>

\* lines 135-147
LabelGlobalPass ==
  /\ pc = "label_global"
  /\ app_label' = IF ~Truthy(app_label) THEN GlobalLoop(strings)
                  ELSE app_label
  /\ pc' = "label_last_resort"
  /\ UNCHANGED <<scanVars, package_name, version_name, version_code, permissions,
                 result, formulaVars>>

\* lines 150-157
LabelLastResortPass ==
  /\ pc = "label_last_resort"
  /\ app_label' = IF ~Truthy(app_label) THEN LastResortLoop(strings)
                  ELSE app_label
  /\ pc' = "package"
  /\ UNCHANGED <<scanVars, package_name, version_name, version_code, permissions,
                 result, formulaVars>>

\* lines 159-173
FindPackageAndVersionName ==
  /\ pc = "package"
  /\ LET r == PackageVersionLoop(strings, package_name, version_name)
     IN package_name' = r[1] /\ version_name' = r[2]
  /\ pc' = "version_code"
  /\ UNCHANGED <<scanVars, version_code, app_label, permissions, result, formulaVars>>

\* lines 176-179
FindVersionCode ==
  /\ pc = "version_code"
  /\ version_code' = VersionCodeLoop(strings, version_code)
  /\ pc' = "label_from_package"
  /\ UNCHANGED <<scanVars, package_name, version_name, app_label, permissions,
                 result, formulaVars>>

\* lines 182-189
LabelFromPackage ==
  /\ pc = "label_from_package"
  /\ app_label' = IF ~Truthy(app_label) /\ Truthy(package_name)
                  THEN Some(LabelFromPackageName(package_name[1]))
                  ELSE app_label
  /\ pc' = "return"
  /\ UNCHANGED <<scanVars, package_name, version_name, version_code, permissions,
                 result, formulaVars>>

\* lines 191-197
ReturnMetadata ==
  /\ pc = "return"
  /\ result' = Metadata(package_name, version_name, version_code, app_label, permissions)
  /\ pc' = "done"
  /\ UNCHANGED <<scanVars, classVars, formulaVars>>

NextClassify ==
  \/ ClassifyStart
  \/ ExtractPermissions
  \/ LabelProximityPass
  \/ LabelGlobalPass
  \/ LabelLastResortPass
  \/ FindPackageAndVersionName
  \/ FindVersionCode
  \/ LabelFromPackage
  \/ ReturnMetadata

(***************************************************************************)
(* parse_binary_xml: the chunk walk and the string pool (lines 23-64)      *)
(***************************************************************************)
STRING_POOL == 1835009   \* 0x001C0001

\* data[a:b], clamped to the buffer as a Python slice is
Slice(buf, a, b) ==
  LET lo == IF a < Len(buf) THEN a ELSE Len(buf)
      hi == IF b < Len(buf) THEN b ELSE Len(buf)
  IN SubSeq(buf, lo + 1, hi)

\* struct.unpack('<I', b)[0] and struct.unpack('<H', b)[0]; struct.error is
\* raised when b has not exactly 4 (2) bytes
CanUnpackI(b) == Len(b) = 4
UnpackI(b) == b[1] + 256 * b[2] + 65536 * b[3] + 16777216 * b[4]
UnpackH(b) == b[1] + 256 * b[2]

\* the characters U+0020..U+007E (U+0060 is written "grave")
ASCII ==
  <<" ", "!", "\"", "#", "$", "%", "&", "'", "(", ")", "*", "+", ",", "-", ".", "/",
    "0", "1", "2", "3", "4", "5", "6", "7", "8", "9", ":", ";", "<", "=", ">", "?",
    "@", "A", "B", "C", "D", "E", "F", "G", "H", "I", "J", "K", "L", "M", "N", "O",
    "P", "Q", "R", "S", "T", "U", "V", "W", "X", "Y", "Z", "[", "\\", "]", "^", "_",
    "grave", "a", "b", "c", "d", "e", "f", "g", "h", "i", "j", "k", "l", "m", "n", "o",
    "p", "q", "r", "s", "t", "u", "v", "w", "x", "y", "z", "{", "|", "}", "~">>
\* the character of a UTF-16 code unit; units outside ASCII are one opaque
\* character (the buffers below hold only ASCII units and surrogates)
Chr(u) == IF u \in 32..126 THEN ASCII[u - 31] ELSE "non-ascii"
IsHighSurrogate(u) == u \in 55296..56319
IsLowSurrogate(u) == u \in 56320..57343

\* the 16-bit little-endian code units of b; an odd last byte is dropped
CodeUnits(b) == [i \in 1..(Len(b) \div 2) |-> b[2 * i - 1] + 256 * b[2 * i]]

\* bytes.decode('utf-16-le', errors='ignore') on the code units: a surrogate
\* pair is one character, a lone surrogate is dropped
RECURSIVE DecodeUnits(_)
DecodeUnits(u) ==
  IF u = <<>> THEN <<>>
  ELSE IF IsHighSurrogate(u[1])
       THEN IF Len(u) >= 2 /\ IsLowSurrogate(u[2])
            THEN <<"non-bmp">> \o DecodeUnits(SubSeq(u, 3, Len(u)))
            ELSE DecodeUnits(Tail(u))
       ELSE IF IsLowSurrogate(u[1]) THEN DecodeUnits(Tail(u))
            ELSE <<Chr(u[1])>> \o DecodeUnits(Tail(u))
decode_utf_16_le(b) == DecodeUnits(CodeUnits(b))

\* Advance without the guard against a chunk of size 0
AdvanceUnguarded(off, chunk_size) == off + chunk_size

\* line 64: offset += chunk_size if chunk_size > 0 else 1
Advance(off, chunk_size) == off + (IF chunk_size > 0 THEN chunk_size ELSE 1)

\* line 35: the loop condition of the chunk walk
WalkContinues(buf, off) == off < Len(buf) - 8

\* lines 52-59: one entry of the offset table, appended to the pool or skipped
ReadString(buf, data_start, str_offset, strs) ==
  LET str_pos == data_start + str_offset
  IN IF str_pos < Len(buf) - 2
     THEN LET str_len == UnpackH(Slice(buf, str_pos, str_pos + 2))
          IN IF str_len > 0 /\ str_len < 1000
             THEN Append(strs, decode_utf_16_le(
                                 Slice(buf, str_pos + 2, str_pos + 2 + str_len * 2)))
             ELSE strs
     ELSE strs

\* lines 50-61: for str_offset in offsets
RECURSIVE StringLoop(_, _, _, _)
StringLoop(buf, data_start, offs, strs) ==
  IF offs = <<>> THEN strs
  ELSE StringLoop(buf, data_start, Tail(offs),
                  ReadString(buf, data_start, Head(offs), strs))

\* lines 24-33
Start ==
  /\ pc = "start"
  /\ IF Len(data) < 8
     THEN /\ result' = ErrorResult("File too small")
          /\ pc' = "done"
          /\ UNCHANGED <<offset, strings>>
     ELSE /\ offset' = 8
          /\ strings' = <<>>
          /\ pc' = "walk"
          /\ UNCHANGED result
  /\ UNCHANGED <<data, string_count, offsets, classVars, formulaVars>>

\* lines 35-39 and 64: one iteration of the walk over a chunk that is not the
\* string pool, or the discovery of the string pool
WalkChunk ==
  /\ pc = "walk"
  /\ WalkContinues(data, offset)
  /\ LET chunk_type == UnpackI(Slice(data, offset, offset + 4))
         chunk_size == UnpackI(Slice(data, offset + 4, offset + 8))
     IN IF chunk_type = STRING_POOL
        THEN pc' = "pool" /\ UNCHANGED offset
        ELSE pc' = "walk" /\ offset' = Advance(offset, chunk_size)
  /\ UNCHANGED <<data, string_count, offsets, strings, classVars, result, formulaVars>>

\* line 35: the loop condition fails, no string pool was found
WalkEnd ==
  /\ pc = "walk"
  /\ ~WalkContinues(data, offset)
  /\ pc' = "classify"
  /\ UNCHANGED <<scanVars, classVars, result, formulaVars>>

\* line 40 (and 198-199 when struct.unpack raises)
ReadStringCount ==
  /\ pc = "pool"
  /\ LET b == Slice(data, offset + 8, offset + 12)
     IN IF CanUnpackI(b)
        THEN /\ string_count' = UnpackI(b)
             /\ offsets' = <<>>
             /\ pc' = "offsets"
             /\ UNCHANGED result
        ELSE /\ result' = ErrorResult("unpack requires a buffer of 4 bytes")
             /\ pc' = "done"
             /\ UNCHANGED <<string_count, offsets>>
  /\ UNCHANGED <<data, offset, strings, classVars, formulaVars>>

\* lines 45-47: one iteration of for i in range(string_count)
ReadOffset ==
  /\ pc = "offsets"
  /\ Len(offsets) < string_count
  /\ LET i == Len(offsets)
         b == Slice(data, offset + 28 + i * 4, offset + 32 + i * 4)
     IN IF CanUnpackI(b)
        THEN /\ offsets' = Append(offsets, UnpackI(b))
             /\ UNCHANGED <<pc, result>>
        ELSE /\ result' = ErrorResult("unpack requires a buffer of 4 bytes")
             /\ pc' = "done"
             /\ UNCHANGED offsets
  /\ UNCHANGED <<data, offset, string_count, strings, classVars, formulaVars>>

\* lines 50-62: the strings are read and the walk ends (break)
ReadStrings ==
  /\ pc = "offsets"
  /\ Len(offsets) = string_count
  /\ strings' = StringLoop(data, offset + 28 + string_count * 4, offsets, strings)
  /\ pc' = "classify"
  /\ UNCHANGED <<data, offset, string_count, offsets, classVars, result, formulaVars>>

NextScan ==
  \/ Start
  \/ WalkChunk
  \/ WalkEnd
  \/ ReadStringCount
  \/ ReadOffset
  \/ ReadStrings
  \/ ClassifyStart
  \/ ExtractPermissions
  \/ LabelProximityPass
  \/ LabelGlobalPass
  \/ LabelLastResortPass
  \/ FindPackageAndVersionName
  \/ FindVersionCode
  \/ LabelFromPackage
  \/ ReturnMetadata

(***************************************************************************)
(* Manifest buffers the parse is run on                                    *)
(***************************************************************************)
LE32(n) == <<n % 256, (n \div 256) % 256, (n \div 65536) % 256, (n \div 16777216) % 256>>
LE16(n) == <<n % 256, (n \div 256) % 256>>
Ord(c) == CHOOSE u \in 32..126 : ASCII[u - 31] = c
RECURSIVE Concat(_)
Concat(seqs) == IF seqs = <<>> THEN <<>> ELSE Head(seqs) \o Concat(Tail(seqs))

\* one pool entry: length prefix, UTF-16LE code units, terminator
EncodeUnits(units) ==
  LE16(Len(units)) \o Concat([i \in DOMAIN units |-> LE16(units[i])]) \o <<0, 0>>
UnitsOf(s) == [i \in DOMAIN s |-> Ord(s[i])]

\* a string pool chunk: type, size, string_count, 16 bytes of header this
\* parser skips, the offset table, the entries
PoolChunk(declared, offs, body) ==
  LE32(STRING_POOL) \o LE32(28 + 4 * Len(offs) + Len(body)) \o LE32(declared)
    \o [i \in 1..16 |-> 0]
    \o Concat([i \in DOMAIN offs |-> LE32(offs[i])]) \o body

\* the offsets of consecutive entries
RECURSIVE EntryOffsets(_, _)
EntryOffsets(entries, at) ==
  IF entries = <<>> THEN <<>>
  ELSE <<at>> \o EntryOffsets(Tail(entries), at + Len(Head(entries)))

WellFormedPool(entries) == PoolChunk(Len(entries), EntryOffsets(entries, 0), Concat(entries))

EntryPackage == EncodeUnits(UnitsOf(<<"c","o","m",".","a","b",".","c","d">>))
EntryVersion == EncodeUnits(UnitsOf(<<"1",".","2">>))
\* 'A', a lone high surrogate, 'b'
EntrySurrogate == EncodeUnits(<<65, 55296, 98>>)
\* a length prefix of 0 and one of 1000
EntryEmpty == LE16(0) \o <<0, 0>>
EntryHuge == LE16(1000) \o LE16(97) \o <<0, 0>>

PoolChunks ==
  { WellFormedPool(<<EntryPackage, EntryVersion>>),
    WellFormedPool(<<EntrySurrogate, EntryEmpty, EntryHuge, EntryVersion>>),
    \* an offset far outside the buffer
    PoolChunk(2, <<0, 500>>, EntryVersion),
    \* more strings declared than the offset table holds
    PoolChunk(3, <<0>>, EntryPackage),
    \* no strings
    PoolChunk(0, <<>>, <<>>) }

\* chunks that are not a string pool: two well-formed ones, one of size 0 and
\* one whose size points past the end of the buffer (every 32-bit field a
\* walk over these buffers can read stays below 2^31)
OtherChunks ==
  { LE32(258) \o LE32(8),
    LE32(258) \o LE32(12) \o LE32(7),
    LE32(258) \o LE32(0),
    LE32(259) \o LE32(4096) }

MaxChunks == 1

\* magic and file size, never interpreted
Header == LE32(524291) \o LE32(0)

Buffers ==
  { Header \o Concat(pre) \o pool \o LE32(257) \o LE32(8) :
      pre \in SeqsUpTo(OtherChunks, MaxChunks), pool \in PoolChunks \cup {<<>>} }

\* every buffer and every truncation of it
InitScan ==
  /\ pc = "start"
  /\ \E b \in Buffers : \E n \in 0..Len(b) : data = SubSeq(b, 1, n)
  /\ offset = 0 /\ string_count = 0 /\ offsets = <<>> /\ strings = <<>>
  /\ package_name = None /\ version_name = None /\ version_code = None
  /\ app_label = None /\ permissions = <<>>
  /\ result = NoResult
  /\ IdleFormula

SpecScan == InitScan /\ [][NextScan]_vars
\* the interpreter runs the statements of the chunk walk one after the other
FairSpecScan == SpecScan /\ WF_vars(Start) /\ WF_vars(WalkChunk) /\ WF_vars(WalkEnd)

(***************************************************************************)
(* String pools the heuristics are run on                                  *)
(***************************************************************************)
MaxPool == 3

VocabPermission ==
  { <<"a","n","d","r","o","i","d",".","p","e","r","m","i","s","s","i","o","n",".","I","N","T","E","R","N","E","T">>, <<"a","n","d","r","o","i","d",".","p","e","r","m","i","s","s","i","o","n",".","C","A","M","E","R","A">>,
    <<"c","o","m",".","e","x",".","p","e","r","m","i","s","s","i","o","n",".","R","E","A","D">>, <<"c","o","m",".","e","x",".","p","e","r","m","i","s","s","i","o","n",".","S","y","n","c","S","e","r","v","i","c","e">>,
    <<"c","o","m",".","e","x","a","m","p","l","e",".","m","y","a","p","p">>, <<"n","a","m","e">> }
VocabPackage ==
  { <<"c","o","m",".","e","x","a","m","p","l","e",".","m","y","a","p","p">>, <<"c","o","m",".","e","x","a","m","p","l","e",".","m","y","a","p","p",".","M","a","i","n","A","c","t","i","v","i","t","y">>, <<"c","o","m",".","e","x","a","m","p","l","e",".">>,
    <<"c","o","m",".","e","x","a","m","p","l","e",".","m","y","A","p","p">>, <<"a",".","b",".","c">>, <<"9","a",".","b",".","c","d">>, <<"c","o","m",".","e","x",".","p","e","r","m","i","s","s","i","o","n",".","R","E","A","D">> }
VocabVersionName ==
  { <<"1",".","2",".","3">>, <<"2",".","0","-","b","e","t","a","1">>, <<"1",".","0","r","c","2">>, <<"1",".","4",".","2">>, <<"v","1",".","0">>, <<"1",".","x">>, <<"8","7","6","5","4","3","2","1">> }
VocabVersionCode ==
  { <<"1","0","0","0","0","0">>, <<"9","9","9","9","9">>, <<"1","2","3","4">>, <<"1","2","3","4","5","6","7","8","9","0","1","2">>, <<"8","7","6","5","4","3","2","1">>, <<"0","0","1","0","0">>,
    <<"2","0","0","0","0","0","0","0","0","0">>, <<"1",".","4",".","2">> }
VocabLabel ==
  { <<"a","p","p","l","i","c","a","t","i","o","n">>, <<"M","y","C","o","o","l","A","p","p">>, <<"M","y"," ","A","p","p">>, <<"M","a","i","n">>, <<"A","p","p","2">>, <<"H","i">>, <<"o","k">>,
    <<"c","o","m",".","e","x","a","m","p","l","e",".","d","e","m","o">> }

\* a string no label pass accepts, used to push strings away from 'application'
Filler == <<"i","d">>
Fillers(k) == [i \in 1..k |-> Filler]
\* 'application' first, then k fillers, then the rest of the pool
PaddedPools ==
  { <<<<"a","p","p","l","i","c","a","t","i","o","n">>>> \o Fillers(k) \o rest :
      k \in {19, 20}, rest \in SeqsUpTo(VocabLabel, MaxPool - 1) }

Pools ==
  SeqsUpTo(VocabPermission, MaxPool) \cup SeqsUpTo(VocabPackage, MaxPool)
    \cup SeqsUpTo(VocabVersionName, MaxPool) \cup SeqsUpTo(VocabVersionCode, MaxPool)
    \cup SeqsUpTo(VocabLabel, MaxPool) \cup PaddedPools

\* the state parse_binary_xml is in once the chunk walk has produced the pool
InitClassify ==
  /\ pc = "classify"
  /\ strings \in Pools
  /\ data = <<>> /\ offset = 0 /\ string_count = 0 /\ offsets = <<>>
  /\ package_name = None /\ version_name = None /\ version_code = None
  /\ app_label = None /\ permissions = <<>>
  /\ result = NoResult
  /\ IdleFormula

SpecClassify == InitClassify /\ [][NextClassify]_vars

(***************************************************************************)
(* update_formula.py: main                                                 *)
(***************************************************************************)
Quote == "\""
\* the characters \s matches in the texts below: space and line feed
LF == "LF"
c_isspace(c) == c = " " \/ c = LF
c_isoctal(c) == c \in {"0", "1", "2", "3", "4", "5", "6", "7"}

\* the pattern (kw\s+")([^"]+)(") matches txt from index i; q is the index of
\* the opening quote (end of group 1)
OpeningQuote(txt, kw, i) ==
  LET j == i + Len(kw)
  IN CHOOSE q \in j..Len(txt) : ~c_isspace(txt[q]) /\ \A k \in j..(q - 1) : c_isspace(txt[k])
MatchesAt(txt, kw, i) ==
  LET j == i + Len(kw)
  IN /\ j <= Len(txt)
     /\ SubSeq(txt, i, j - 1) = kw
     /\ c_isspace(txt[j])
     /\ \E q \in j..Len(txt) : ~c_isspace(txt[q])
     /\ LET q == OpeningQuote(txt, kw, i)
        IN /\ txt[q] = Quote
           /\ q + 1 <= Len(txt) /\ txt[q + 1] # Quote
           /\ \E e \in (q + 2)..Len(txt) : txt[e] = Quote
HasMatch(txt, kw) == \E i \in DOMAIN txt : MatchesAt(txt, kw, i)
\* re.search: the leftmost match
FirstMatchAt(txt, kw) ==
  CHOOSE i \in DOMAIN txt : MatchesAt(txt, kw, i) /\ \A k \in 1..(i - 1) : ~MatchesAt(txt, kw, k)
\* the index of the closing quote (group 3) of the match at i
ClosingQuote(txt, kw, i) ==
  LET q == OpeningQuote(txt, kw, i)
  IN CHOOSE e \in (q + 2)..Len(txt) : txt[e] = Quote /\ \A k \in (q + 1)..(e - 1) : txt[k] # Quote

\* lines 25-27: the replacement template is '\1' + value + '\3'.  The template
\* parser of re reads the digits that follow '\1' into the escape: two octal
\* digits make an octal character escape, otherwise one digit makes the group
\* number 10..19, which the pattern does not have (re.error)
TemplateIsOctal(value) ==
  Len(value) >= 2 /\ c_isoctal(value[1]) /\ c_isoctal(value[2])
TemplateRaises(value) ==
  value # <<>> /\ c_isdigit(value[1]) /\ ~TemplateIsOctal(value)
\* what the template expands to, given the text of groups 1 and 3
Expand(value, group1, group3) ==
  IF TemplateIsOctal(value)
  THEN <<Chr(64 + 8 * DigitValue(value[1]) + DigitValue(value[2]))>>
         \o SubSeq(value, 3, Len(value)) \o group3
  ELSE group1 \o value \o group3

\* line 31: re.subn(pattern, replacement, text, count=1)[0] when there is a match
Subn(txt, kw, value) ==
  LET i == FirstMatchAt(txt, kw)
      q == OpeningQuote(txt, kw, i)
      e == ClosingQuote(txt, kw, i)
  IN SubSeq(txt, 1, i - 1) \o Expand(value, SubSeq(txt, i, q), <<txt[e]>>)
       \o SubSeq(txt, e + 1, Len(txt))

\* lines 11-21
CheckArgs ==
  /\ pc = "main"
  /\ IF argv.argc # 5
     THEN rc' = "1" /\ pc' = "exit"
     ELSE pc' = "read" /\ UNCHANGED rc
  /\ UNCHANGED <<scanVars, classVars, result, argv, text, file, written>>

\* line 23
ReadText ==
  /\ pc = "read"
  /\ text' = file
  /\ pc' = "sub_url"
  /\ UNCHANGED <<scanVars, classVars, result, argv, file, written, rc>>

\* lines 30-35, one iteration: the uncaught re.error ends the process with a
\* traceback, a pattern without match makes main return 1
Substitute(at, kw, value, next) ==
  /\ pc = at
  /\ IF TemplateRaises(value)
     THEN rc' = "re.error" /\ pc' = "exit" /\ UNCHANGED text
     ELSE IF ~HasMatch(text, kw)
          THEN rc' = "1" /\ pc' = "exit" /\ UNCHANGED text
          ELSE text' = Subn(text, kw, value) /\ pc' = next /\ UNCHANGED rc
  /\ UNCHANGED <<scanVars, classVars, result, argv, file, written>>

SubstituteUrl == Substitute("sub_url", <<"u","r","l">>, argv.download_url, "sub_sha256")
SubstituteSha256 == Substitute("sub_sha256", <<"s","h","a","2","5","6">>, argv.sha, "sub_version")
SubstituteVersion == Substitute("sub_version", <<"v","e","r","s","i","o","n">>, argv.version, "write")

\* lines 37-38
WriteText ==
  /\ pc = "write"
  /\ written' = Some(text)
  /\ rc' = "0"
  /\ pc' = "exit"
  /\ UNCHANGED <<scanVars, classVars, result, argv, text, file>>

NextFormula ==
  \/ CheckArgs
  \/ ReadText
  \/ SubstituteUrl
  \/ SubstituteSha256
  \/ SubstituteVersion
  \/ WriteText

(***************************************************************************)
(* Formula files and arguments update_formula.py is run on                 *)
(***************************************************************************)
Field(kw, spaces, value) == kw \o spaces \o <<Quote>> \o value \o <<Quote, LF>>

FormulaLines ==
  { Field(<<"u","r","l">>, <<" "," ">>, <<"h","/","o","l","d">>),
    Field(<<"u","r","l">>, <<" ">>, <<"h","/","a","l","t">>),
    Field(<<"s","h","a","2","5","6">>, <<" ">>, <<"0","l","d">>),
    Field(<<"v","e","r","s","i","o","n">>, <<" ">>, <<"0",".","9">>) }

MaxLines == 3

FormulaTexts == { Concat(lines) : lines \in SeqsUpTo(FormulaLines, MaxLines) }

Urls == { <<"h","/","n","e","w">>, <<"7","z","/","x">> }
Shas == { <<"a","b","c">>, <<"9","f","8">>, <<"1","2","a">> }
Versions == { <<"v","2">>, <<"1",".","0">>, <<"2","3",".","1">> }

InitFormula ==
  /\ pc = "main"
  /\ file \in FormulaTexts
  /\ argv \in [argc : {4, 5}, download_url : Urls, sha : Shas, version : Versions]
  /\ text = <<>> /\ written = None /\ rc = "none"
  /\ data = <<>> /\ offset = 0 /\ string_count = 0 /\ offsets = <<>> /\ strings = <<>>
  /\ package_name = None /\ version_name = None /\ version_code = None
  /\ app_label = None /\ permissions = <<>>
  /\ result = NoResult

SpecFormula == InitFormula /\ [][NextFormula]_vars

(***************************************************************************)
(* Properties                                                              *)
(***************************************************************************)
Returned == pc = "done"
FirstIndex(list, x) == CHOOSE i \in DOMAIN list : list[i] = x /\ \A j \in 1..(i - 1) : list[j] # x
Least(I) == CHOOSE i \in I : \A j \in I : i <= j

\* C1: parse_binary_xml fails only on a too-small buffer: a buffer shorter
\* than 8 bytes gives the 'File too small' error, every buffer of 8 bytes or
\* more gives a metadata record and never an error result.
C1_FailsOnlyWhenTooSmall ==
  Returned =>
    /\ Len(data) < 8 => result = ErrorResult("File too small")
    /\ Len(data) >= 8 => result.error = ""

\* C2: the chunk walk terminates: the cursor starts at 8, every iteration
\* that stays in the walk moves it forward, by chunk_size when chunk_size > 0
\* and by 1 when chunk_size is 0, and the walk ends at the first chunk of
\* type 0x001C0001 or once the cursor is no longer below len(data) - 8.
C2_WalkStep ==
  LET chunk_type == UnpackI(Slice(data, offset, offset + 4))
      chunk_size == UnpackI(Slice(data, offset + 4, offset + 8))
  IN /\ pc = "start" /\ pc' = "walk" => offset' = 8
     /\ pc = "walk" =>
          /\ pc' \in {"walk", "pool", "classify"}
          /\ pc' = "walk" =>
               /\ offset < Len(data) - 8 /\ chunk_type # 1835009
               /\ offset' > offset
               /\ chunk_size > 0 => offset' = offset + chunk_size
               /\ chunk_size = 0 => offset' = offset + 1
          /\ pc' = "pool" =>
               offset < Len(data) - 8 /\ chunk_type = 1835009 /\ offset' = offset
          /\ pc' = "classify" => offset >= Len(data) - 8 /\ offset' = offset
C2_WalkTerminates ==
  /\ [][C2_WalkStep]_vars
  /\ <>(pc \in {"pool", "classify", "done"})
\* the walk has stepped over a chunk of size 0 and over a chunk of positive
\* size and ended without finding a string pool
C2_Witness ==
  /\ pc = "classify" /\ strings = <<>>
  /\ Len(data) > 24
  /\ UnpackI(Slice(data, 12, 16)) = 0
  /\ offset >= Len(data) - 8 /\ offset > 9

\* C3: the permissions list holds exactly the pool strings that satisfy the
\* permission rule, each once, in the order of their first occurrence.
C3_Rule(s) ==
  \/ startswith(s, <<"a","n","d","r","o","i","d",".","p","e","r","m","i","s","s","i","o","n",".">>)
  \/ /\ contains(s, <<".","p","e","r","m","i","s","s","i","o","n",".">>)
     /\ \A suffix \in {<<"A","c","t","i","v","i","t","y">>, <<"S","e","r","v","i","c","e">>, <<"R","e","c","e","i","v","e","r">>, <<"P","r","o","v","i","d","e","r">>} :
          ~endswith(s, suffix)
C3_PermissionsExact ==
  Returned /\ result.error = "" =>
    LET p == result.permissions
    IN /\ \A i, j \in DOMAIN p : i # j => p[i] # p[j]
       /\ {p[i] : i \in DOMAIN p} = {strings[k] : k \in {k \in DOMAIN strings : C3_Rule(strings[k])}}
       /\ \A i, j \in DOMAIN p :
            i < j => FirstIndex(strings, p[i]) < FirstIndex(strings, p[j])
\* a pool in which a permission is repeated after another permission
C3_Witness ==
  /\ Returned /\ Len(result.permissions) = 2
  /\ Len(strings) = 3 /\ strings[1] = strings[3] /\ strings[1] # strings[2]
  /\ C3_Rule(strings[1]) /\ C3_Rule(strings[2])

\* C4: the package is the first pool string that satisfies the package rule,
\* a later one never replaces it, and it is absent exactly when no pool
\* string satisfies the rule.
C4_Rule(s) ==
  /\ count(s, ".") >= 2
  /\ 5 < Len(s) /\ Len(s) < 200
  /\ \E i \in DOMAIN s : c_isalpha(s[i])
  /\ \A i \in DOMAIN s : c_isalnum(s[i]) \/ s[i] \in {".", "_"}
  /\ ~c_isdigit(s[1])
  /\ ~startswith(s, <<"a","n","d","r","o","i","d",".","p","e","r","m","i","s","s","i","o","n",".">>)
C4_Candidates == {i \in DOMAIN strings : C4_Rule(strings[i])}
C4_PackageIsFirstMatch ==
  Returned /\ result.error = "" =>
    IF C4_Candidates = {} THEN result.package = None
    ELSE result.package = Some(strings[Least(C4_Candidates)])
\* two different strings satisfy the rule and the first one is the package
C4_Witness ==
  /\ Returned /\ Cardinality(C4_Candidates) >= 2
  /\ \E i \in C4_Candidates : strings[i] # strings[Least(C4_Candidates)]
  /\ result.package = Some(strings[Least(C4_Candidates)])

\* C5: the string returned as package is never a member of the returned
\* permissions list.
C5_PackageIsNoPermission ==
  Returned /\ result.error = "" /\ result.package # None =>
    ~InList(result.package[1], result.permissions)

\* C6: when '1.2.3', '2.0-beta1' or '1.0rc2' is the first pool string that
\* is shorter than 50 characters, contains '.' and starts with a digit, it is
\* the version name.
C6_Shape(s) == Len(s) < 50 /\ contains(s, <<".">>) /\ c_isdigit(s[1])
C6_Shaped == {i \in DOMAIN strings : C6_Shape(strings[i])}
C6_VersionNameForms ==
  Returned /\ result.error = "" /\ C6_Shaped # {} =>
    \A v \in {<<"1",".","2",".","3">>, <<"2",".","0","-","b","e","t","a","1">>, <<"1",".","0","r","c","2">>} :
      strings[Least(C6_Shaped)] = v => result.versionName = Some(v)

\* C7: the version code is the pool string of greatest integer value among
\* the all-digit strings of length 5 to 10, and is absent exactly when there
\* is no such string.
C7_Window == {i \in DOMAIN strings :
                /\ \A k \in DOMAIN strings[i] : c_isdigit(strings[i][k])
                /\ 5 <= Len(strings[i]) /\ Len(strings[i]) <= 10}
C7_VersionCodeIsMax ==
  Returned /\ result.error = "" =>
    IF C7_Window = {} THEN result.versionCode = None
    ELSE /\ result.versionCode # None
         /\ \E i \in C7_Window : strings[i] = result.versionCode[1]
         /\ \A i \in C7_Window : int(strings[i]) <= int(result.versionCode[1])
\* '100000' wins over '99999', which is greater lexically and comes later,
\* and over all-digit strings outside the window
C7_Witness ==
  /\ Returned /\ result.versionCode = Some(<<"1","0","0","0","0","0">>)
  /\ Len(strings) = 3
  /\ strings[1] = <<"1","0","0","0","0","0">> /\ strings[2] = <<"9","9","9","9","9">> /\ strings[3] = <<"1","2","3","4","5","6","7","8","9","0","1","2">>

\* C8: when a string among the 20 that follow the first 'application'
\* satisfies the proximity criteria, the label is the earliest such string.
C8_Excluded(s) == \E i \in DOMAIN excluded_labels : upper(excluded_labels[i]) = upper(s)
C8_Criteria(s) ==
  /\ Len(s) \in 2..50
  /\ \A i \in DOMAIN s : s[i] # "/" /\ ~c_isdigit(s[i])
  /\ ~startswith(s, <<"a","n","d","r","o","i","d">>) /\ ~startswith(s, <<"c","o","m",".">>) /\ ~startswith(s, <<"@">>)
  /\ ~endswith(s, <<".","x","m","l">>)
  /\ ~C8_Excluded(s)
  /\ c_isupper(s[1])
C8_Applications == {i \in DOMAIN strings : strings[i] = <<"a","p","p","l","i","c","a","t","i","o","n">>}
C8_Near ==
  {i \in DOMAIN strings :
     /\ i > Least(C8_Applications) /\ i <= Least(C8_Applications) + 20
     /\ C8_Criteria(strings[i])}
C8_ProximityWins ==
  Returned /\ result.error = "" /\ C8_Applications # {} /\ C8_Near # {} =>
    result.appLabel = Some(strings[Least(C8_Near)])
\* the label is the string 20 places after 'application'; the next string,
\* 21 places after it, satisfies the search over all strings
C8_Witness ==
  /\ Returned /\ C8_Applications # {}
  /\ LET a == Least(C8_Applications)
     IN /\ Len(strings) >= a + 21
        /\ C8_Near = {a + 20}
        /\ GlobalTest(strings[a + 21])
        /\ result.appLabel = Some(strings[a + 20])

\* C9: when no label pass selects a string and a package was found, the
\* label is the capitalized last segment of the package and is not empty;
\* every returned record with a package has a non-empty label.
C9_NoPassSelects ==
  /\ C8_Applications # {} => C8_Near = {}
  /\ \A i \in DOMAIN strings : ~GlobalTest(strings[i]) /\ ~LastResortTest(strings[i])
C9_LabelFromPackage ==
  Returned /\ result.error = "" /\ result.package # None =>
    /\ result.appLabel # None /\ result.appLabel[1] # <<>>
    /\ C9_NoPassSelects =>
         LET parts == split(result.package[1], ".")
         IN result.appLabel = Some(capitalize(parts[Len(parts)]))

\* C10: run with four arguments on a formula that has a url, a sha256 and a
\* version field, update_formula.py returns 0 and writes the file with the
\* first of each field holding the argument and nothing else changed; when a
\* pattern has no match it returns 1 and writes nothing.
C10_SetField(txt, kw, value) ==
  LET i == FirstMatchAt(txt, kw)
  IN SubSeq(txt, 1, OpeningQuote(txt, kw, i)) \o value
       \o SubSeq(txt, ClosingQuote(txt, kw, i), Len(txt))
C10_UpdatesFields ==
  pc = "exit" /\ argv.argc = 5 =>
    IF HasMatch(file, <<"u","r","l">>) /\ HasMatch(file, <<"s","h","a","2","5","6">>) /\ HasMatch(file, <<"v","e","r","s","i","o","n">>)
    THEN /\ rc = "0"
         /\ written = Some(C10_SetField(C10_SetField(C10_SetField(file,
                             <<"u","r","l">>, argv.download_url),
                             <<"s","h","a","2","5","6">>, argv.sha),
                             <<"v","e","r","s","i","o","n">>, argv.version))
    ELSE rc = "1" /\ written = None

====
